---- MODULE Spec2Model ----
(***************************************************************************)
(* A model of the Python REPL front end of src/main.go: the completion     *)
(* engine (Repl.Completer, PythonCode.GetCompletions, PythonCode.Complete),*)
(* the completeness detector (PythonCode.ContinueInput) and the session    *)
(* loop (main, Repl.Run).                                                  *)
(*                                                                         *)
(* Go strings that the code slices or scans are sequences of one-character *)
(* strings; Go indices are 0-based and are kept 0-based in the operators   *)
(* that model Go slicing (Slice, LastIndex).                               *)
(***************************************************************************)
EXTENDS Integers, Sequences, FiniteSets, TLC

VARIABLES
    document,    \* PythonCode.document: [text, cursor, onLastLine]
    env,         \* what the lexer and py.Compile answer for document.text
    tokens,      \* PythonCode.tokens, the token cache
    ret,         \* the value the last Line Editor callback returned
    globals,     \* Repl.Module.Globals, the names bound in the execution namespace
    builtins,    \* Repl.Context.Store().Builtins.Globals, the builtin names
    inputCount,  \* Repl.inputCount
    pc,          \* position of main's loop
    line,        \* the line ReadInput returned, being run
    submitted,   \* how many non-empty lines ReadInput has returned so far
    history,     \* the outcome of every Run call so far, oldest first
    event,       \* the last thing the loop of main did
    reply,       \* the byte read by the exit confirmation of this iteration
    declines     \* exit confirmations declined in a row (saturating)

vars == <<document, env, tokens, ret, globals, builtins, inputCount, pc, line,
          submitted, history, event, reply, declines>>

codeVars == <<document, env, tokens, ret>>
sessionVars ==
    <<globals, builtins, inputCount, pc, line, submitted, history, event, reply, declines>>

----------------------------------------------------------------------------
(* Bounds of the model *)

MaxLineLen == 3
MaxTextLen == 3
MaxTokens == 2
MaxInputs == 2
MaxDeclines == 2

----------------------------------------------------------------------------
(* Strings *)

\* The byte value of a character, the order sort.Strings compares by.
CharCode(c) ==
    CASE c = "\t" -> 9
      [] c = "\n" -> 10
      [] c = " "  -> 32
      [] c = "#"  -> 35
      [] c = "a"  -> 97
      [] c = "b"  -> 98
      [] c = "f"  -> 102
      [] c = "o"  -> 111
      [] c = "r"  -> 114
      [] c = "x"  -> 120

\* s[lo:hi] of Go, lo and hi 0-based.
Slice(s, lo, hi) == SubSeq(s, lo + 1, hi)

\* strings.HasPrefix
HasPrefix(s, prefix) ==
    /\ Len(prefix) <= Len(s)
    /\ SubSeq(s, 1, Len(prefix)) = prefix

\* strings.HasSuffix
HasSuffix(s, suffix) ==
    /\ Len(suffix) <= Len(s)
    /\ SubSeq(s, Len(s) - Len(suffix) + 1, Len(s)) = suffix

\* strings.LastIndex(s, c) for a one-character c: 0-based, -1 when absent.
LastIndex(s, c) ==
    LET at == {i \in 1..Len(s) : s[i] = c}
    IN  IF at = {} THEN -1 ELSE (CHOOSE i \in at : \A j \in at : j <= i) - 1

\* strings.Contains on texts kept as sequences.
Contains(s, sub) ==
    \E i \in 0..(Len(s) - Len(sub)) : SubSeq(s, i + 1, i + Len(sub)) = sub

\* a < b as Go compares strings: byte by byte, a proper prefix first.
RECURSIVE StringLess(_, _)
StringLess(a, b) ==
    IF b = <<>> THEN FALSE
    ELSE IF a = <<>> THEN TRUE
    ELSE IF CharCode(Head(a)) # CharCode(Head(b))
         THEN CharCode(Head(a)) < CharCode(Head(b))
    ELSE StringLess(Tail(a), Tail(b))

\* Insertion of x into the sorted sequence s.
RECURSIVE InsertSorted(_, _)
InsertSorted(x, s) ==
    IF s = <<>> THEN <<x>>
    ELSE IF StringLess(Head(s), x) THEN <<Head(s)>> \o InsertSorted(x, Tail(s))
    ELSE <<x>> \o s

\* sort.Strings
RECURSIVE SortStrings(_)
SortStrings(s) ==
    IF s = <<>> THEN <<>> ELSE InsertSorted(Head(s), SortStrings(Tail(s)))

\* All sequences over S of length at most n.
SeqsUpTo(S, n) == UNION {[1..k -> S] : k \in 0..n}

\* The orders in which a Go map with key set S may be ranged over.
Orders(S) ==
    {o \in [1..Cardinality(S) -> S] : \A i, j \in 1..Cardinality(S) : o[i] = o[j] => i = j}

----------------------------------------------------------------------------
(* The namespaces and the lines of the completion engine *)

foo == <<"f", "o", "o">>
foobar == <<"f", "o", "o", "b", "a", "r">>

\* The names a namespace may bind.
Names == {<<"o">>, foo, foobar}

\* The characters of a line being completed.
LineChars == {" ", "f", "o"}

Lines == SeqsUpTo(LineChars, MaxLineLen)

----------------------------------------------------------------------------
(* Repl.Completer *)

\* The closure match of Completer, ranging over a map in the order given:
\* acc is [completions, found].
RECURSIVE match(_, _, _)
matchNoFound(order, partial, acc) ==
    IF order = <<>> THEN acc
    ELSE LET k == Head(order)
         IN  match(Tail(order), partial,
                   IF HasPrefix(k, partial)
                   THEN [completions |-> Append(acc.completions, k),
                         found |-> acc.found \cup {k}]
                   ELSE acc)

match(order, partial, acc) ==
    IF order = <<>> THEN acc
    ELSE LET k == Head(order)
         IN  match(Tail(order), partial,
                   IF HasPrefix(k, partial) /\ k \notin acc.found
                   THEN [completions |-> Append(acc.completions, k),
                         found |-> acc.found \cup {k}]
                   ELSE acc)

\* Completer(line, pos), with the orders in which the two maps are ranged over.
Completer(text, pos, orderGlobals, orderBuiltins) ==
    LET head0 == Slice(text, 0, pos)
        tail == Slice(text, pos, Len(text))
        lastSpace == LastIndex(head0, " ")
        head == Slice(text, 0, lastSpace + 1)
        partial == Slice(text, lastSpace + 1, Len(text))
        acc0 == [completions |-> <<>>, found |-> {}]
        acc1 == match(orderGlobals, partial, acc0)
        acc2 == match(orderBuiltins, partial, acc1)
    IN  [head |-> head, completions |-> SortStrings(acc2.completions), tail |-> tail]

----------------------------------------------------------------------------
(* PythonCode.GetCompletions and PythonCode.Complete *)

\* remainLength of GetCompletions.
remainLengthNoTail(text, head, tail) == Len(text) - Len(head)

remainLength(text, head, tail) == Len(text) - Len(head) - Len(tail)

\* GetCompletions: the completions, or a panic when com[remainLength:] is out of
\* range. completer keeps what Completer returned.
GetCompletions(text, pos, orderGlobals, orderBuiltins) ==
    LET c == Completer(text, pos, orderGlobals, orderBuiltins)
        coms == c.completions
        n == remainLength(text, c.head, c.tail)
        inRange == \A i \in 1..Len(coms) : 0 <= n /\ n <= Len(coms[i])
    IN  [completer |-> c,
         remainLength |-> n,
         panic |-> ~inRange,
         completions |->
            IF inRange
            THEN [i \in 1..Len(coms) |->
                    [Display |-> coms[i], Suffix |-> Slice(coms[i], n, Len(coms[i]))]]
            ELSE <<>>]

\* Complete: the suffix of the only completion, or the empty string.
Complete(completions) ==
    IF Len(completions) = 1 THEN completions[1].Suffix ELSE <<>>

NoRet == [op |-> "none", val |-> <<>>]

\* The Line Editor asks for the completions of the document.
OnGetCompletions ==
    /\ pc = "await"
    /\ \E og \in Orders(globals), ob \in Orders(builtins) :
          ret' = [op |-> "GetCompletions",
                  val |-> GetCompletions(document.text, document.cursor, og, ob)]
    /\ UNCHANGED <<document, env, tokens>>
    /\ UNCHANGED sessionVars

\* The Line Editor asks for the completion to insert at once.
OnComplete ==
    /\ pc = "await"
    /\ \E og \in Orders(globals), ob \in Orders(builtins) :
          LET r == GetCompletions(document.text, document.cursor, og, ob)
          IN  ret' = [op |-> "Complete",
                      val |-> [panic |-> r.panic, suffix |-> Complete(r.completions)]]
    /\ UNCHANGED <<document, env, tokens>>
    /\ UNCHANGED sessionVars

----------------------------------------------------------------------------
(* The session as NewRepl leaves it *)

Nil == <<>>

InitSession ==
    /\ inputCount = 1
    /\ pc = "await"
    /\ line = <<>>
    /\ submitted = 0
    /\ history = <<>>
    /\ event = "start"
    /\ reply = "none"
    /\ declines = 0

\* The documents of the completion engine: a line and a cursor offset in it.
CompletionDocuments ==
    UNION {{[text |-> t, cursor |-> p, onLastLine |-> TRUE] : p \in 0..Len(t)} : t \in Lines}

InitComplete ==
    /\ document \in CompletionDocuments
    /\ env = [lexed |-> <<>>, compileErr |-> Nil]
    /\ tokens = <<>>
    /\ ret = NoRet
    /\ globals \in SUBSET Names
    /\ builtins \in SUBSET Names
    /\ InitSession

NextComplete == OnGetCompletions \/ OnComplete

SpecComplete == InitComplete /\ [][NextComplete]_vars

----------------------------------------------------------------------------
(* The token classifier: keywords, isKeyword, pyTokens, PythonCode.GetTokens *)

keywords ==
    {"False", "await", "else", "import", "pass", "None", "break", "except", "in",
     "raise", "True", "class", "finally", "is", "return", "and", "continue", "for",
     "lambda", "try", "as", "def", "from", "nonlocal", "while", "assert", "del",
     "global", "not", "with", "async", "elif", "if", "or", "yield"}

isKeyword(name) == name \in keywords

\* pyTokens, applied to the tokens the lexer produced for the text.
pyTokens(lexed) ==
    [i \in 1..Len(lexed) |->
        IF lexed[i].Type = "Name" /\ isKeyword(lexed[i].Literal)
        THEN [Type |-> "Keyword", Literal |-> lexed[i].Literal]
        ELSE lexed[i]]

\* GetTokens: the cached tokens, classified first when the cache is empty.
GetTokens(cached, lexed) ==
    IF Len(cached) = 0 THEN pyTokens(lexed) ELSE cached

\* hasIndent, over the tokens GetTokens returned.
hasIndentNever(toks) == FALSE

hasIndent(toks) == \E i \in 1..Len(toks) : toks[i].Type = "Indent"

----------------------------------------------------------------------------
(* PythonCode.ContinueInput *)

\* The error texts of py.Compile, word by word.
ErrUnexpectedEOF == <<"unexpected", "EOF", "while", "parsing">>
ErrTripleQuoted == <<"EOF", "while", "scanning", "triple-quoted", "string", "literal">>

\* unicode.IsSpace, on the characters of the model.
IsSpace(c) == c \in {"\t", "\n", " "}

\* strings.TrimRight(s, " ")
RECURSIVE TrimRightSpaces(_)
TrimRightSpaces(s) ==
    IF s # <<>> /\ s[Len(s)] = " " THEN TrimRightSpaces(SubSeq(s, 1, Len(s) - 1)) ELSE s

\* strings.TrimSpace
RECURSIVE TrimSpace(_)
TrimSpace(s) ==
    IF s # <<>> /\ IsSpace(Head(s)) THEN TrimSpace(Tail(s))
    ELSE IF s # <<>> /\ IsSpace(s[Len(s)]) THEN TrimSpace(SubSeq(s, 1, Len(s) - 1))
    ELSE s

\* The compile error is one of the two that mean incomplete input.
IsIncomplete(err) ==
    /\ err # <<>>
    /\ \/ Contains(err, ErrUnexpectedEOF)
       \/ Contains(err, ErrTripleQuoted)

\* ContinueInput reaches its call of hasIndent.
ReachesIndentCheck(doc, err) ==
    /\ doc.onLastLine
    /\ Len(doc.text) # 0
    /\ ~IsIncomplete(err)

\* ContinueInput with the indent check placed before the compile check.
ContinueInputIndentFirst(doc, err, toks) ==
    IF ~doc.onLastLine THEN TRUE
    ELSE IF Len(doc.text) = 0 THEN FALSE
    ELSE IF hasIndent(toks)
         THEN ~HasSuffix(TrimRightSpaces(doc.text), <<"\n">>)
    ELSE IF IsIncomplete(err)
         THEN LET stripped == TrimSpace(doc.text)
                  isComment == Len(stripped) > 0 /\ stripped[1] = "#"
              IN  ~isComment
    ELSE FALSE

\* ContinueInput: TRUE to continue the input, FALSE to submit it. err is what
\* py.Compile answered for the text, toks what GetTokens returns.
ContinueInput(doc, err, toks) ==
    IF ~doc.onLastLine THEN TRUE
    ELSE IF Len(doc.text) = 0 THEN FALSE
    ELSE IF IsIncomplete(err)
         THEN LET stripped == TrimSpace(doc.text)
                  isComment == Len(stripped) > 0 /\ stripped[1] = "#"
              IN  ~isComment
    ELSE IF hasIndent(toks)
         THEN ~HasSuffix(TrimRightSpaces(doc.text), <<"\n">>)
    ELSE FALSE

\* The Line Editor asks for the tokens of the document.
OnGetTokens ==
    /\ pc = "await"
    /\ tokens' = GetTokens(tokens, env.lexed)
    /\ ret' = [op |-> "GetTokens", val |-> tokens']
    /\ UNCHANGED <<document, env>>
    /\ UNCHANGED sessionVars

\* OnContinueInput, running the text it compiles.
OnContinueInputRuns ==
    /\ pc = "await"
    /\ LET toks == GetTokens(tokens, env.lexed)
       IN  /\ ret' = [op |-> "ContinueInput",
                      val |-> ContinueInput(document, env.compileErr, toks)]
           /\ tokens' = IF ReachesIndentCheck(document, env.compileErr)
                        THEN toks ELSE tokens
    /\ globals' \in SUBSET Names
    /\ UNCHANGED <<document, env>>
    /\ UNCHANGED <<builtins, inputCount, pc, line, submitted, history, event, reply, declines>>

\* The Line Editor asks whether Enter continues the input.
OnContinueInput ==
    /\ pc = "await"
    /\ LET toks == GetTokens(tokens, env.lexed)
       IN  /\ ret' = [op |-> "ContinueInput",
                      val |-> ContinueInput(document, env.compileErr, toks)]
           /\ tokens' = IF ReachesIndentCheck(document, env.compileErr)
                        THEN toks ELSE tokens
    /\ UNCHANGED <<document, env>>
    /\ UNCHANGED sessionVars

\* The characters of a buffer.
BufferChars == {"\t", "\n", " ", "#", "x"}

Buffers == SeqsUpTo(BufferChars, MaxTextLen)

\* The tokens the lexer may produce.
LexTokens ==
    {[Type |-> "Name", Literal |-> "if"],
     [Type |-> "Name", Literal |-> "x"],
     [Type |-> "Indent", Literal |-> "    "]}

\* What py.Compile may answer: no error, or an error text.
CompileErrors ==
    {Nil,
     <<"SyntaxError:">> \o ErrUnexpectedEOF,
     <<"SyntaxError:">> \o ErrTripleQuoted,
     <<"SyntaxError:", "EOL", "while", "scanning", "string", "literal">>,
     <<"SyntaxError:", "invalid", "syntax">>}

\* The documents of the completeness detector, the cursor at the end of the text.
ContinueDocuments ==
    {[text |-> t, cursor |-> Len(t), onLastLine |-> b] : t \in Buffers, b \in BOOLEAN}

InitContinue ==
    /\ document \in ContinueDocuments
    /\ env \in [lexed : SeqsUpTo(LexTokens, MaxTokens), compileErr : CompileErrors]
    /\ tokens = <<>>
    /\ ret = NoRet
    /\ globals = {}
    /\ builtins = Names
    /\ InitSession

NextContinue == OnGetTokens \/ OnContinueInput

SpecContinue == InitContinue /\ [][NextContinue]_vars

----------------------------------------------------------------------------
(* Prompt.GetPrompt *)

\* The prompt token: fmt.Sprintf("In [%d]: ", grepl.inputCount), the number kept
\* as a number.
GetPrompt(n) == <<[Type |-> "Prompt", Literal |-> <<"In [", n, "]: ">>]>>

\* The Line Editor asks for the prompt.
OnGetPrompt ==
    /\ pc = "await"
    /\ ret' = [op |-> "GetPrompt", val |-> GetPrompt(inputCount)]
    /\ UNCHANGED <<document, env, tokens>>
    /\ UNCHANGED sessionVars

----------------------------------------------------------------------------
(* The session: main and Repl.Run *)

EmptyDocument == [text |-> <<>>, cursor |-> 0, onLastLine |-> TRUE]
NoEnv == [lexed |-> <<>>, compileErr |-> Nil]

\* The documents, each with the lexer's and the compiler's answer for it, that
\* the Line Editor hands to newMultilineCode in a session.
SessionCodes ==
    {[document |-> [text |-> <<"f", "o">>, cursor |-> 2, onLastLine |-> TRUE],
      env |-> [lexed |-> <<[Type |-> "Name", Literal |-> "x"]>>, compileErr |-> Nil]],
     [document |-> [text |-> <<"x", "\n">>, cursor |-> 2, onLastLine |-> TRUE],
      env |-> [lexed |-> <<[Type |-> "Name", Literal |-> "if"],
                           [Type |-> "Indent", Literal |-> "    "]>>,
               compileErr |-> Nil]],
     [document |-> [text |-> <<"x">>, cursor |-> 1, onLastLine |-> TRUE],
      env |-> [lexed |-> <<[Type |-> "Name", Literal |-> "x"]>>,
               compileErr |-> <<"SyntaxError:">> \o ErrUnexpectedEOF]]}

\* The lines ReadInput may return.
SubmittedLines == {<<>>, <<"x">>, <<"o">>}

\* The bytes the exit confirmation may read.
ReplyBytes == {"n", "y", "N", "\n"}

\* newMultilineCode: the Line Editor makes the code of a new document.
newMultilineCode ==
    /\ pc = "await"
    /\ \E c \in SessionCodes :
          /\ document' = c.document
          /\ env' = c.env
    /\ tokens' = <<>>
    /\ ret' = NoRet
    /\ UNCHANGED sessionVars

\* len(line) == 0 of main.
IsEmptyLineNever(l) == FALSE

IsEmptyLine(l) == Len(l) = 0

\* r.inputCount++ of Run.
Increment(n) == n + 1

\* One return of c.ReadInput in main: an empty line, a line that enters Run (its
\* r.inputCount++ included), the exit signal, or another error. The Line Editor
\* starts the next ReadInput on an empty document.
ReadInput ==
    /\ pc = "await"
    /\ document' = EmptyDocument
    /\ env' = NoEnv
    /\ tokens' = <<>>
    /\ ret' = NoRet
    /\ reply' = "none"
    /\ \/ \E l \in SubmittedLines :
             /\ line' = l
             /\ declines' = 0
             /\ submitted' = IF Len(l) = 0 THEN submitted ELSE submitted + 1
             /\ IF IsEmptyLine(l)
                THEN /\ event' = "empty_line"
                     /\ UNCHANGED <<pc, inputCount>>
                ELSE /\ inputCount <= MaxInputs
                     /\ inputCount' = Increment(inputCount)
                     /\ event' = "submitted"
                     /\ pc' = "compile"
       \/ /\ event' = "exit_signal"
          /\ pc' = "confirm"
          /\ line' = <<>>
          /\ UNCHANGED <<inputCount, submitted, declines>>
       \/ /\ event' = "readinput_error"
          /\ pc' = "done"
          /\ line' = <<>>
          /\ UNCHANGED <<inputCount, submitted, declines>>
    /\ UNCHANGED <<globals, builtins, history>>

\* Where Run goes after py.Compile: back to main on an error, on to RunCode.
AfterCompileAlwaysRuns(err) == "exec"

AfterCompileFatal(err) == IF err # Nil THEN "done" ELSE "exec"

AfterCompile(err) == IF err # Nil THEN "await" ELSE "exec"

\* py.Compile of Run, and its return on an error.
RunCompile ==
    /\ pc = "compile"
    /\ \E err \in CompileErrors :
          /\ pc' = AfterCompile(err)
          /\ IF err # Nil
             THEN /\ event' = "compile_error"
                  /\ history' = Append(history, "compile_error")
             ELSE /\ event' = "compiled"
                  /\ UNCHANGED history
    /\ UNCHANGED <<globals, builtins, inputCount, line, submitted, reply, declines>>
    /\ UNCHANGED codeVars

\* RunCode of Run, on the globals of the module, and its traceback on an error;
\* the code may bind and unbind any names.
RunCode ==
    /\ pc = "exec"
    /\ \E g \in SUBSET Names, ok \in BOOLEAN :
          /\ globals' = g
          /\ event' = IF ok THEN "executed" ELSE "runtime_error"
          /\ history' = Append(history, IF ok THEN "ok" ELSE "runtime_error")
    /\ pc' = "await"
    /\ UNCHANGED <<builtins, inputCount, line, submitted, reply, declines>>
    /\ UNCHANGED codeVars

\* reply == 'n' of main.
DeclinedUnlessY(b) == b # "y"

Declined(b) == b = "n"

\* The exit confirmation of main: reader.ReadByte and what follows it.
ConfirmExit ==
    /\ pc = "confirm"
    /\ \/ /\ reply' = "error"
          /\ event' = "confirm_read_error"
          /\ pc' = "done"
          /\ UNCHANGED declines
       \/ \E b \in ReplyBytes :
             /\ reply' = b
             /\ IF Declined(b)
                THEN /\ event' = "declined"
                     /\ pc' = "await"
                     /\ declines' = IF declines < MaxDeclines THEN declines + 1 ELSE declines
                ELSE /\ event' = "exit_confirmed"
                     /\ pc' = "done"
                     /\ UNCHANGED declines
    /\ UNCHANGED <<globals, builtins, inputCount, line, submitted, history>>
    /\ UNCHANGED codeVars

Init ==
    /\ document = EmptyDocument
    /\ env = NoEnv
    /\ tokens = <<>>
    /\ ret = NoRet
    /\ globals = {}
    /\ builtins = {foo}
    /\ InitSession

Next ==
    \/ ReadInput
    \/ RunCompile
    \/ RunCode
    \/ ConfirmExit
    \/ newMultilineCode
    \/ OnGetTokens
    \/ OnGetCompletions
    \/ OnComplete
    \/ OnContinueInput
    \/ OnGetPrompt

Spec == Init /\ [][Next]_vars

----------------------------------------------------------------------------
(* The completeness detector's properties, under SpecContinue *)

\* The compile errors that mean incomplete input.
IncompleteErrors == {<<"SyntaxError:">> \o ErrUnexpectedEOF, <<"SyntaxError:">> \o ErrTripleQuoted}

\* The first character of the text that is no white space is '#'.
IsCommentText(text) ==
    \E i \in 1..Len(text) :
        /\ text[i] = "#"
        /\ \A j \in 1..(i - 1) : text[j] \in {"\t", "\n", " "}

\* The text ends with a newline followed by spaces only.
EndsWithBlankLine(text) ==
    \E i \in 1..Len(text) :
        /\ text[i] = "\n"
        /\ \A j \in (i + 1)..Len(text) : text[j] = " "

\* The lexer produced an Indent token for the text.
LexedIndent == \E i \in 1..Len(env.lexed) : env.lexed[i].Type = "Indent"

\* ContinueInput answered for a non-empty buffer with the cursor on its last line.
ContinueAsked ==
    /\ ret.op = "ContinueInput"
    /\ document.onLastLine
    /\ Len(document.text) > 0

\* C1: when compiling the buffer fails with an incomplete-input error,
\* ContinueInput submits exactly when the trimmed buffer starts with '#' and
\* continues otherwise, whatever the tokens and the end of the buffer are.
C1_IncompleteDecides ==
    (ContinueAsked /\ env.compileErr \in IncompleteErrors)
        => (ret.val = ~IsCommentText(document.text))

\* An incomplete buffer that is no comment continues although it has an Indent
\* token and ends with a newline.
C1_Witness ==
    /\ ContinueAsked
    /\ env.compileErr \in IncompleteErrors
    /\ LexedIndent
    /\ EndsWithBlankLine(document.text)
    /\ ~IsCommentText(document.text)
    /\ ret.val = TRUE

\* C2: when the compile succeeds or fails with another error, ContinueInput
\* submits when there is no Indent token, and with an Indent token submits
\* exactly when the buffer without its trailing spaces ends with a newline.
C2_IndentNeedsBlankLine ==
    (ContinueAsked /\ env.compileErr \notin IncompleteErrors)
        => (ret.val = (LexedIndent /\ ~EndsWithBlankLine(document.text)))

\* The second Enter of an indented block: newline and spaces at the end, submitted.
C2_Witness ==
    /\ ContinueAsked
    /\ env.compileErr \notin IncompleteErrors
    /\ LexedIndent
    /\ Len(document.text) >= 3
    /\ document.text[Len(document.text)] = " "
    /\ EndsWithBlankLine(document.text)
    /\ ret.val = FALSE

----------------------------------------------------------------------------
(* The completion engine's properties, under SpecComplete *)

\* The position (1-based) of the last space before the cursor, 0 when none.
LastSpaceBeforeCursor ==
    LET at == {i \in 1..document.cursor : document.text[i] = " "}
    IN  IF at = {} THEN 0 ELSE CHOOSE i \in at : \A j \in at : j <= i

\* The text typed between that space and the cursor.
TypedWord == SubSeq(document.text, LastSpaceBeforeCursor + 1, document.cursor)

\* The members of a sequence.
Range(s) == {s[i] : i \in 1..Len(s)}

\* C3: Completer returns the text after the cursor as tail, the text up to the
\* last space before the cursor as head, and as candidates exactly the names of
\* the two namespaces that start with the word typed before the cursor.
C3_CandidatesOfTypedWord ==
    ret.op = "GetCompletions" =>
        /\ ret.val.completer.tail = SubSeq(document.text, document.cursor + 1, Len(document.text))
        /\ ret.val.completer.head = SubSeq(document.text, 1, LastSpaceBeforeCursor)
        /\ Range(ret.val.completer.completions)
             = {n \in globals \cup builtins : HasPrefix(n, TypedWord)}

\* C4: for every candidate of GetCompletions, remainLength is between 0 and the
\* candidate's length, and the typed word followed by the suffix is the
\* candidate's display name.
C4_SuffixCompletesTypedWord ==
    ret.op = "GetCompletions" =>
        LET n == Len(document.text) - Len(ret.val.completer.head) - Len(ret.val.completer.tail)
        IN  /\ ~ret.val.panic
            /\ ret.val.remainLength = n
            /\ Len(ret.val.completions) = Len(ret.val.completer.completions)
            /\ \A i \in 1..Len(ret.val.completions) :
                  LET c == ret.val.completions[i]
                  IN  /\ c.Display = ret.val.completer.completions[i]
                      /\ 0 <= n
                      /\ n <= Len(c.Display)
                      /\ TypedWord \o c.Suffix = c.Display

\* Names foo and foobar, line "fo", cursor 2: suffixes "o" and "obar".
C4_Witness ==
    /\ ret.op = "GetCompletions"
    /\ document.text = <<"f", "o">>
    /\ document.cursor = 2
    /\ ret.val.completions = <<[Display |-> foo, Suffix |-> <<"o">>],
                               [Display |-> foobar, Suffix |-> <<"o", "b", "a", "r">>]>>

\* C5: the candidates of Completer are in strictly ascending order and hold no
\* name twice.
C5_CandidatesSortedDistinct ==
    ret.op = "GetCompletions" =>
        LET coms == ret.val.completer.completions
        IN  /\ \A i \in 1..(Len(coms) - 1) : StringLess(coms[i], coms[i + 1])
            /\ \A i, j \in 1..Len(coms) : coms[i] = coms[j] => i = j

\* Several candidates, one of them bound in both namespaces.
C5_Witness ==
    /\ ret.op = "GetCompletions"
    /\ Len(ret.val.completer.completions) >= 2
    /\ \E i \in 1..Len(ret.val.completer.completions) :
          ret.val.completer.completions[i] \in globals \cap builtins

----------------------------------------------------------------------------
(* The session's properties, under Spec *)

\* C6: the input counter is 1 plus the number of non-empty lines submitted so
\* far, also while such a line is being compiled; it never decreases, and only
\* the return of a non-empty line changes it, by 1.
C6_CounterCountsLines ==
    /\ [](inputCount = 1 + submitted)
    /\ [][/\ inputCount' >= inputCount
          /\ inputCount' # inputCount =>
                /\ pc = "await"
                /\ pc' = "compile"
                /\ Len(line') > 0
                /\ inputCount' = inputCount + 1]_vars

\* Two lines were submitted, one failed to compile and one failed at run time,
\* and an empty line followed.
C6_Witness ==
    /\ inputCount = 3
    /\ history = <<"compile_error", "runtime_error">>
    /\ event = "empty_line"

\* C7: a line whose compilation fails is not executed and the loop awaits the
\* next line; a line that compiles is executed; after an execution, failed or
\* not, the loop awaits the next line; nothing else is executed.
C7_ErrorsKeepSession ==
    [][/\ pc = "compile" =>
             IF event' = "compile_error"
             THEN /\ pc' = "await"
                  /\ globals' = globals
                  /\ history' = Append(history, "compile_error")
             ELSE /\ pc' = "exec"
                  /\ history' = history
       /\ pc = "exec" =>
             /\ pc' = "await"
             /\ \/ history' = Append(history, "ok")
                \/ history' = Append(history, "runtime_error")
       /\ (history' # history /\ history'[Len(history')] # "compile_error") =>
             (pc = "exec" /\ event = "compiled")]_vars

\* A line failed to compile, and the next line was compiled and executed.
C7_Witness ==
    /\ pc = "await"
    /\ history = <<"compile_error", "ok">>
    /\ event = "executed"

\* C8: only the execution step of a compiled line changes the execution
\* namespace.
C8_OnlyExecutionWrites ==
    [][globals' # globals => (pc = "exec" /\ event = "compiled" /\ pc' = "await")]_vars

\* A completion request answered on the namespace an earlier execution left,
\* after a line that failed to compile.
C8_Witness ==
    /\ globals = {foo, foobar}
    /\ history = <<"ok", "compile_error">>
    /\ ret.op = "GetCompletions"
    /\ Range(ret.val.completer.completions) = {foo, foobar}

\* C9: the exit signal leads to the confirmation; a reply of 'n' leads back to
\* awaiting a line with counter, namespace and executions unchanged; any other
\* reply and a read failure end the session, and nothing follows its end.
C9_ExitConfirmation ==
    [][/\ (pc = "await" /\ event' = "exit_signal") => pc' = "confirm"
       /\ pc = "confirm" =>
             IF reply' = "n"
             THEN /\ pc' = "await"
                  /\ inputCount' = inputCount
                  /\ globals' = globals
                  /\ history' = history
             ELSE pc' = "done"
       /\ pc = "done" => vars' = vars]_vars

\* The exit was declined twice in a row.
C9_Witness ==
    /\ pc = "await"
    /\ event = "declined"
    /\ reply = "n"
    /\ declines >= 2

\* C10 as stated: of the errors the loop observes, only the read failure of the
\* exit confirmation ends it.
C10_OnlyConfirmReadFailureEnds ==
    /\ event \in {"compile_error", "runtime_error", "readinput_error"} => pc = "await"
    /\ event = "confirm_read_error" => pc = "done"

\* C10 as the code has it: a compile error and a runtime error leave the loop
\* awaiting a line; the read failure of the exit confirmation and an error of
\* ReadInput that is not the exit signal end it.
C10_ReadFailuresEnd ==
    /\ event \in {"compile_error", "runtime_error"} => pc = "await"
    /\ event \in {"confirm_read_error", "readinput_error"} => pc = "done"

\* After a compile error and a runtime error the loop went on, and an error of
\* ReadInput ended it.
C10_Witness ==
    /\ history = <<"compile_error", "runtime_error">>
    /\ event = "readinput_error"
    /\ pc = "done"

====
